---- MODULE Spec2Model ----
(***************************************************************************)
(* Model of ingesta.py: the deterministic mock value generator and the     *)
(* seed / extract / export run of main().                                  *)
(*                                                                         *)
(* Python strings are sequences of one-character strings, so that lower(), *)
(* startswith, "in" and f-string formatting are computed, not assumed.     *)
(* Python values carry their type: IntVal, FloatVal, StrVal, NoneVal, and  *)
(* Raised for a call that ends in an exception.                            *)
(***************************************************************************)
EXTENDS Integers, Sequences, FiniteSets, TLC

\* ------------------------------------------------------------------ bounds
\* Longest raw type descriptor built from TypeTokens, in tokens.
MaxTokens == 3
\* Row ordinals 0..MaxOrdinal are tried besides the ordinals at the calendar limit.
MaxOrdinal == 3
\* The table holds 0..MaxExisting rows when the run begins.
MaxExisting == 2
\* MOCK_ROWS is tried from -1 to MaxMockRows, besides unset and malformed values.
MaxMockRows == 2

\* ------------------------------------------------------------- str helpers
UpperAlpha == <<"A","B","C","D","E","F","G","H","I","J","K","L","M",
                "N","O","P","Q","R","S","T","U","V","W","X","Y","Z">>
LowerAlpha == <<"a","b","c","d","e","f","g","h","i","j","k","l","m",
                "n","o","p","q","r","s","t","u","v","w","x","y","z">>
DigitChar == <<"0","1","2","3","4","5","6","7","8","9">>

\* str.lower() on one character
LowerChar(c) ==
    IF \E i \in 1..26 : UpperAlpha[i] = c
    THEN LowerAlpha[CHOOSE i \in 1..26 : UpperAlpha[i] = c]
    ELSE c

\* str.lower()
Lower(s) == [i \in 1..Len(s) |-> LowerChar(s[i])]

\* sub in s
Contains(sub, s) ==
    \E i \in 0..(Len(s) - Len(sub)) : SubSeq(s, i + 1, i + Len(sub)) = sub

\* s.startswith(p)
StartsWith(s, p) == Len(s) >= Len(p) /\ SubSeq(s, 1, Len(p)) = p

RECURSIVE NatToStr(_)
NatToStr(n) ==
    IF n < 10 THEN <<DigitChar[n + 1]>>
    ELSE NatToStr(n \div 10) \o <<DigitChar[(n % 10) + 1]>>

\* str(n) of a Python int, as an f-string field formats it
IntToStr(n) == IF n < 0 THEN <<"-">> \o NatToStr(0 - n) ELSE NatToStr(n)

RECURSIVE ZeroPad(_, _)
\* the digits of n left-padded with zeros to width w (%02d, %04d)
ZeroPad(s, w) == IF Len(s) >= w THEN s ELSE ZeroPad(<<"0">> \o s, w)

\* ----------------------------------------------------------- Python values
IntVal(n) == [py |-> "int", i |-> n]
FloatVal(n) == [py |-> "float", f |-> n]
StrVal(s) == [py |-> "str", s |-> s]
NoneVal == [py |-> "None"]
Raised(e) == [py |-> "raise", exc |-> e]

\* ------------------------------------------------- keywords of the cascade
kw_int == <<"i","n","t">>
kw_unsigned == <<"u","n","s","i","g","n","e","d">>
kw_bigint == <<"b","i","g","i","n","t">>
kw_smallint == <<"s","m","a","l","l","i","n","t">>
kw_decimal == <<"d","e","c","i","m","a","l">>
kw_numeric == <<"n","u","m","e","r","i","c">>
kw_float == <<"f","l","o","a","t">>
kw_double == <<"d","o","u","b","l","e">>
kw_bool == <<"b","o","o","l">>
kw_tinyint1 == <<"t","i","n","y","i","n","t","(","1",")">>
kw_date == <<"d","a","t","e">>
kw_time == <<"t","i","m","e">>
kw_datetime == <<"d","a","t","e","t","i","m","e">>
kw_timestamp == <<"t","i","m","e","s","t","a","m","p">>
kw_char == <<"c","h","a","r">>
kw_text == <<"t","e","x","t">>
kw_json == <<"j","s","o","n">>

\* ------------------------------------------------------ datetime arithmetic
\* datetime.MAXYEAR: a date past 9999-12-31 is an OverflowError
MAXYEAR == 9999

IsLeap(y) == y % 4 = 0 /\ (y % 100 # 0 \/ y % 400 = 0)

DaysInMonth(y, m) ==
    IF m = 2 THEN (IF IsLeap(y) THEN 29 ELSE 28)
    ELSE IF m \in {4, 6, 9, 11} THEN 30 ELSE 31

RECURSIVE DaysBeforeMonth(_, _)
DaysBeforeMonth(y, m) ==
    IF m = 1 THEN 0 ELSE DaysBeforeMonth(y, m - 1) + DaysInMonth(y, m - 1)

DaysBeforeYear(y) ==
    (y - 1) * 365 + ((y - 1) \div 4) - ((y - 1) \div 100) + ((y - 1) \div 400)

\* proleptic Gregorian ordinal of y-m-d (0001-01-01 is day 1)
Ymd2Ord(y, m, d) == DaysBeforeYear(y) + DaysBeforeMonth(y, m) + d

MaxOrdinalDay == Ymd2Ord(MAXYEAR, 12, 31)

\* the year holding ordinal day n
YearOfOrd(n) ==
    LET n0 == n - 1
        n400 == n0 \div 146097
        r400 == n0 % 146097
        n100 == r400 \div 36524
        r100 == r400 % 36524
        n4 == r100 \div 1461
        r4 == r100 % 1461
        n1 == r4 \div 365
        y == n400 * 400 + n100 * 100 + n4 * 4 + n1 + 1
    IN IF n1 = 4 \/ n100 = 4 THEN y - 1 ELSE y

\* ordinal day -> <<year, month, day>>
Ord2Ymd(n) ==
    LET y == YearOfOrd(n)
        rest == n - DaysBeforeYear(y)
        m == CHOOSE k \in 1..12 :
                 /\ DaysBeforeMonth(y, k) < rest
                 /\ rest <= DaysBeforeMonth(y, k) + DaysInMonth(y, k)
    IN <<y, m, rest - DaysBeforeMonth(y, m)>>

\* date.isoformat(): YYYY-MM-DD
IsoDate(ymd) ==
    ZeroPad(NatToStr(ymd[1]), 4) \o <<"-">> \o ZeroPad(NatToStr(ymd[2]), 2)
        \o <<"-">> \o ZeroPad(NatToStr(ymd[3]), 2)

\* (datetime(2024, 1, 1) + timedelta(days=row_index)).date().isoformat()
MockDate(row_index) ==
    LET ord == Ymd2Ord(2024, 1, 1) + row_index
    IN IF ord < 1 \/ ord > MaxOrdinalDay THEN Raised("OverflowError")
       ELSE StrVal(IsoDate(Ord2Ymd(ord)))

\* (datetime(2024, 1, 1, 12, 0, 0) + timedelta(hours=row_index)).strftime("%Y-%m-%d %H:%M:%S")
MockDateTime(row_index) ==
    LET hours == 12 + row_index
        dayshift == IF hours >= 0 THEN hours \div 24 ELSE 0 - ((23 - hours) \div 24)
        hour == hours - dayshift * 24
        ord == Ymd2Ord(2024, 1, 1) + dayshift
    IN IF ord < 1 \/ ord > MaxOrdinalDay THEN Raised("OverflowError")
       ELSE StrVal(IsoDate(Ord2Ymd(ord)) \o <<" ">> \o ZeroPad(NatToStr(hour), 2)
                   \o <<":","0","0",":","0","0">>)

\* f"mock_{column_name}_{ordinal}"
MockText(column_name, ordinal) ==
    StrVal(<<"m","o","c","k","_">> \o column_name \o <<"_">> \o IntToStr(ordinal))

\* f'{{"mock": "{column_name}_{ordinal}"}}'
MockJson(column_name, ordinal) ==
    StrVal(<<"{","\"","m","o","c","k","\"",":"," ","\"">> \o column_name \o <<"_">>
           \o IntToStr(ordinal) \o <<"\"","}">>)

\* -------------------------------------------- conditions of the if cascade
IsUnsignedInt(t) == Contains(kw_int, t) /\ Contains(kw_unsigned, t)
IsInteger(t) == StartsWith(t, kw_int) \/ Contains(kw_bigint, t) \/ Contains(kw_smallint, t)
IsDecimal(t) ==
    Contains(kw_decimal, t) \/ Contains(kw_numeric, t) \/ Contains(kw_float, t)
        \/ Contains(kw_double, t)
IsBoolean(t) == Contains(kw_bool, t) \/ t = kw_tinyint1
IsDateOnly(t) == Contains(kw_date, t) /\ ~Contains(kw_time, t)
IsDateTime(t) == Contains(kw_datetime, t) \/ Contains(kw_timestamp, t) \/ Contains(kw_time, t)
IsText(t) == Contains(kw_char, t) \/ Contains(kw_text, t)
IsJson(t) == Contains(kw_json, t)

\* generate_mock_value with the boolean test moved to the top of the cascade
generate_mock_value_bool_first(column_type, column_name, row_index) ==
    LET t == Lower(column_type)
        ordinal == row_index + 1
    IN IF IsBoolean(t) THEN IntVal(row_index % 2)
       ELSE IF IsUnsignedInt(t) THEN IntVal(ordinal)
       ELSE IF IsInteger(t) THEN IntVal(ordinal)
       ELSE IF IsDecimal(t) THEN FloatVal(ordinal)
       ELSE IF IsDateOnly(t) THEN MockDate(row_index)
       ELSE IF IsDateTime(t) THEN MockDateTime(row_index)
       ELSE IF IsText(t) THEN MockText(column_name, ordinal)
       ELSE IF IsJson(t) THEN MockJson(column_name, ordinal)
       ELSE MockText(column_name, ordinal)

\* generate_mock_value without its last return: an unmatched type falls off
\* the end of the function
generate_mock_value_no_fallback(column_type, column_name, row_index) ==
    LET t == Lower(column_type)
        ordinal == row_index + 1
    IN IF IsUnsignedInt(t) THEN IntVal(ordinal)
       ELSE IF IsInteger(t) THEN IntVal(ordinal)
       ELSE IF IsDecimal(t) THEN FloatVal(ordinal)
       ELSE IF IsBoolean(t) THEN IntVal(row_index % 2)
       ELSE IF IsDateOnly(t) THEN MockDate(row_index)
       ELSE IF IsDateTime(t) THEN MockDateTime(row_index)
       ELSE IF IsText(t) THEN MockText(column_name, ordinal)
       ELSE IF IsJson(t) THEN MockJson(column_name, ordinal)
       ELSE NoneVal

\* generate_mock_value with the boolean taken from ordinal, not row_index
generate_mock_value_bool_ordinal(column_type, column_name, row_index) ==
    LET t == Lower(column_type)
        ordinal == row_index + 1
    IN IF IsUnsignedInt(t) THEN IntVal(ordinal)
       ELSE IF IsInteger(t) THEN IntVal(ordinal)
       ELSE IF IsDecimal(t) THEN FloatVal(ordinal)
       ELSE IF IsBoolean(t) THEN IntVal(ordinal % 2)
       ELSE IF IsDateOnly(t) THEN MockDate(row_index)
       ELSE IF IsDateTime(t) THEN MockDateTime(row_index)
       ELSE IF IsText(t) THEN MockText(column_name, ordinal)
       ELSE IF IsJson(t) THEN MockJson(column_name, ordinal)
       ELSE MockText(column_name, ordinal)

\* generate_mock_value(column_type, column_name, row_index)
generate_mock_value(column_type, column_name, row_index) ==
    LET t == Lower(column_type)
        ordinal == row_index + 1
    IN IF IsUnsignedInt(t) THEN IntVal(ordinal)
       ELSE IF IsInteger(t) THEN IntVal(ordinal)
       ELSE IF IsDecimal(t) THEN FloatVal(ordinal)
       ELSE IF IsBoolean(t) THEN IntVal(row_index % 2)
       ELSE IF IsDateOnly(t) THEN MockDate(row_index)
       ELSE IF IsDateTime(t) THEN MockDateTime(row_index)
       ELSE IF IsText(t) THEN MockText(column_name, ordinal)
       ELSE IF IsJson(t) THEN MockJson(column_name, ordinal)
       ELSE MockText(column_name, ordinal)

\* ------------------------------------------------- inputs of the generator
TypeTokens ==
    { kw_int, <<"I","N","T">>, kw_unsigned, <<"U","n","S","i","g","n","e","d">>,
      kw_bool, kw_date, kw_time, kw_char, kw_json }

RECURSIVE TokenStrings(_)
\* every concatenation of at most n tokens
TokenStrings(n) ==
    IF n = 0 THEN { <<>> }
    ELSE LET shorter == TokenStrings(n - 1)
         IN shorter \cup { s \o tok : s \in shorter, tok \in TypeTokens }

\* descriptors as DESCRIBE prints them, the spec's examples, and odd ones
SampleTypes ==
    { <<"v","a","r","c","h","a","r","(","2","5","5",")">>,
      <<"b","i","g","i","n","t"," ","u","n","s","i","g","n","e","d">>,
      <<"d","e","c","i","m","a","l","(","1","0",",","2",")">>,
      <<"T","I","N","Y","I","N","T","(","1",")">>,
      kw_tinyint1,
      <<"t","i","n","y","i","n","t","(","1",")"," ","u","n","s","i","g","n","e","d">>,
      <<"m","e","d","i","u","m","i","n","t">>,
      <<"D","A","T","E","T","I","M","E">>,
      <<"I","n","t","(","1","1",")">>,
      <<"g","e","o","m","e","t","r","y">>,
      kw_timestamp, kw_smallint, kw_bigint, kw_numeric, kw_float, kw_double, kw_text }

RawTypes == TokenStrings(MaxTokens) \cup SampleTypes

\* the backtick character (written out: the lexer reads a bare one as a quote)
Backtick == "BACKTICK"

ColumnNames == { <<"c">>, <<"a",Backtick,"b">> }

\* the last row ordinal whose date-only value is a date, and whose date-time is
LastDateOrdinal == MaxOrdinalDay - Ymd2Ord(2024, 1, 1)
LastDateTimeOrdinal == LastDateOrdinal * 24 + 11

RowOrdinals ==
    (0..MaxOrdinal) \cup { 31, LastDateOrdinal, LastDateOrdinal + 1,
                           LastDateTimeOrdinal, LastDateTimeOrdinal + 1 }

\* ------------------------------------------------------------- environment
\* os.environ is a function whose domain is the set of variables that are set.
\* MkEnv builds it from <<name, option>> pairs: option <<>> leaves the variable
\* unset, <<v>> sets it to v.
MkEnv(pairs) ==
    LET set == { i \in 1..Len(pairs) : Len(pairs[i][2]) = 1 }
    IN [k \in { pairs[i][1] : i \in set } |->
            pairs[CHOOSE i \in set : pairs[i][1] = k][2][1]]

\* os.environ.get(key, default)
EnvGet(env, key, default) == IF key \in DOMAIN env THEN env[key] ELSE default

IsDigit(c) == \E i \in 1..10 : DigitChar[i] = c
DigitValue(c) == (CHOOSE i \in 1..10 : DigitChar[i] = c) - 1

RECURSIVE Strip(_)
\* str.strip() of blanks, as int() does before parsing
Strip(s) ==
    IF s # <<>> /\ Head(s) = " " THEN Strip(Tail(s))
    ELSE IF s # <<>> /\ s[Len(s)] = " " THEN Strip(SubSeq(s, 1, Len(s) - 1))
    ELSE s

RECURSIVE DigitsValue(_, _)
DigitsValue(s, acc) ==
    IF s = <<>> THEN acc
    ELSE IF Head(s) = "_" THEN DigitsValue(Tail(s), acc)
    ELSE DigitsValue(Tail(s), acc * 10 + DigitValue(Head(s)))

\* int(s) of a str: blanks stripped, an optional sign, digits with single
\* underscores between them; anything else is a ValueError
PyInt(s) ==
    LET t == Strip(s)
        signed == t # <<>> /\ Head(t) \in {"+", "-"}
        body == IF signed THEN Tail(t) ELSE t
        wellformed ==
            /\ body # <<>>
            /\ \A i \in 1..Len(body) : IsDigit(body[i]) \/ body[i] = "_"
            /\ body[1] # "_" /\ body[Len(body)] # "_"
            /\ \A i \in 1..(Len(body) - 1) : ~(body[i] = "_" /\ body[i + 1] = "_")
    IN IF ~wellformed THEN Raised("ValueError")
       ELSE IF signed /\ Head(t) = "-" THEN IntVal(0 - DigitsValue(body, 0))
       ELSE IntVal(DigitsValue(body, 0))

\* get_db_config(): the connection parameters, or the exception it raises
get_db_config(env) ==
    IF ~({"MYSQL_USER", "MYSQL_PASSWORD", "MYSQL_DATABASE"} \subseteq DOMAIN env)
    THEN Raised("RuntimeError: missing required environment variable")
    ELSE LET port == PyInt(EnvGet(env, "MYSQL_PORT", <<"3","3","0","6">>))
         IN IF port.py = "raise" THEN port
            ELSE [py |-> "dict",
                  host |-> EnvGet(env, "MYSQL_HOST", <<"l","o","c","a","l","h","o","s","t">>),
                  port |-> port.i,
                  user |-> env["MYSQL_USER"],
                  password |-> env["MYSQL_PASSWORD"],
                  database |-> env["MYSQL_DATABASE"]]

\* get_table_name(): the table name, or the RuntimeError for an unset or empty one
get_table_name(env) ==
    IF "MYSQL_TABLE" \notin DOMAIN env \/ env["MYSQL_TABLE"] = <<>>
    THEN Raised("RuntimeError: MYSQL_TABLE must be set")
    ELSE StrVal(env["MYSQL_TABLE"])

\* should_seed_mock_data()
should_seed_mock_data(env) ==
    Lower(EnvGet(env, "SEED_MOCK_DATA", <<"t","r","u","e">>))
        \in { <<"1">>, <<"t","r","u","e">>, <<"y","e","s">> }

\* rows_to_insert of main(): int(MOCK_ROWS), 3 when unset or not an integer
rows_to_insert_of(env) ==
    LET parsed == PyInt(EnvGet(env, "MOCK_ROWS", <<"3">>))
    IN IF parsed.py = "raise" THEN 3 ELSE parsed.i

\* os.path.basename(path)
RECURSIVE Basename(_)
Basename(path) ==
    IF \E i \in 1..Len(path) : path[i] = "/"
    THEN Basename(SubSeq(path, (CHOOSE i \in 1..Len(path) : path[i] = "/") + 1, Len(path)))
    ELSE path

output_file_of(env) ==
    EnvGet(env, "OUTPUT_CSV",
           <<"i","n","g","e","s","t","a","_","m","y","s","q","l",".","c","s","v">>)
s3_bucket_of(env) ==
    EnvGet(env, "S3_BUCKET", <<"g","c","r","-","o","u","t","p","u","t","-","0","1">>)
s3_key_of(env) == EnvGet(env, "S3_OBJECT_KEY", Basename(output_file_of(env)))

\* ------------------------------------------------------------ SQL building
RECURSIVE DoubleBackticks(_)
\* name.replace("`", "``")
DoubleBackticks(s) ==
    IF s = <<>> THEN <<>>
    ELSE IF Head(s) = Backtick THEN <<Backtick, Backtick>> \o DoubleBackticks(Tail(s))
    ELSE <<Head(s)>> \o DoubleBackticks(Tail(s))

\* `{sanitized}`
Quoted(name) == <<Backtick>> \o DoubleBackticks(name) \o <<Backtick>>

RECURSIVE Join(_, _)
\* sep.join(parts)
Join(sep, parts) ==
    IF parts = <<>> THEN <<>>
    ELSE IF Len(parts) = 1 THEN parts[1]
    ELSE parts[1] \o sep \o Join(sep, Tail(parts))

count_query(table) ==
    <<"S","E","L","E","C","T"," ","C","O","U","N","T","(","*",")"," ","A","S"," ",
      "c","o","u","n","t"," ","F","R","O","M"," ">> \o Quoted(table)
describe_query(table) == <<"D","E","S","C","R","I","B","E"," ">> \o Quoted(table)
select_query(table) ==
    <<"S","E","L","E","C","T"," ","*"," ","F","R","O","M"," ">> \o Quoted(table)
insert_query(table, names) ==
    <<"I","N","S","E","R","T"," ","I","N","T","O"," ">> \o Quoted(table) \o <<" ","(">>
        \o Join(<<","," ">>, [i \in 1..Len(names) |-> Quoted(names[i])])
        \o <<")"," ","V","A","L","U","E","S"," ","(">>
        \o Join(<<","," ">>, [i \in 1..Len(names) |-> <<"%","s">>]) \o <<")">>

\* ------------------------------------------------- pieces of seed_mock_data
kw_auto_increment == <<"a","u","t","o","_","i","n","c","r","e","m","e","n","t">>

\* the early return taken only from the second row on
SkipsSeeding_above_one(existing_rows) == existing_rows > 1

\* if existing_rows: the early return for a table that holds rows
SkipsSeeding(existing_rows) == existing_rows # 0

IsInsertable(column) == ~Contains(kw_auto_increment, column.Extra)

\* the comprehension without its auto_increment filter
insertable_columns_unfiltered(column_metadata) == column_metadata

\* the list comprehension over column_metadata
insertable_columns(column_metadata) == SelectSeq(column_metadata, IsInsertable)

\* the row loop counting from 1: range(1, rows_to_insert + 1)
mock_rows_of_from_one(insertable, n) ==
    [k \in 1..(IF n > 0 THEN n ELSE 0) |->
        [c \in 1..Len(insertable) |->
            generate_mock_value(insertable[c].Type, insertable[c].Field, k)]]

\* the nested loops that build mock_rows: one tuple per row_index in range(rows_to_insert)
mock_rows_of(insertable, n) ==
    [k \in 1..(IF n > 0 THEN n ELSE 0) |->
        [c \in 1..Len(insertable) |->
            generate_mock_value(insertable[c].Type, insertable[c].Field, k - 1)]]

\* an exception raised while the rows are built ends seed_mock_data
RowsRaise(rows) ==
    \E k \in 1..Len(rows) : \E c \in 1..Len(rows[k]) : rows[k][c].py = "raise"

\* the commit moved into a finally clause: it runs after a failed batch too
ReachesCommit_always(insert_ok) == TRUE

\* connection.commit() is reached only when executemany returned
ReachesCommit(insert_ok) == insert_ok

\* main() without try/finally: an exception leaves main() at once
AfterStep_no_finally(step, raised) ==
    IF raised THEN "done"
    ELSE CASE step = "get_table_name" -> "seed"
           [] step = "seed" -> "fetch"
           [] step = "fetch" -> "write_csv"
           [] step = "write_csv" -> "upload"
           [] step = "upload" -> "finally"

\* main() with each step's exception swallowed: the next step runs anyway
AfterStep_swallow(step, raised) ==
    CASE step = "get_table_name" -> "seed"
      [] step = "seed" -> "fetch"
      [] step = "fetch" -> "write_csv"
      [] step = "write_csv" -> "upload"
      [] step = "upload" -> "finally"

\* control flow of the try block of main(): the statement after `step`, the
\* finally clause as soon as one raises
AfterStep(step, raised) ==
    IF raised THEN "finally"
    ELSE CASE step = "get_table_name" -> "seed"
           [] step = "seed" -> "fetch"
           [] step = "fetch" -> "write_csv"
           [] step = "write_csv" -> "upload"
           [] step = "upload" -> "finally"

\* ------------------------------------------------------------ the database
Col(field, type, extra) == [Field |-> field, Type |-> type, Extra |-> extra]

\* DESCRIBE of the tables tried: an auto-generated key with two plain columns,
\* a table whose only column is auto-generated, a table without a key, and a
\* table with a quoted name and an Extra that is not auto_increment
Schemas ==
    { << Col(<<"i","d">>, <<"i","n","t">>, kw_auto_increment),
         Col(<<"n","a","m","e">>, <<"v","a","r","c","h","a","r","(","2","5","5",")">>, <<>>),
         Col(<<"c","r","e","a","t","e","d">>, kw_date, <<>>) >>,
      << Col(<<"i","d">>, <<"B","I","G","I","N","T"," ","u","n","s","i","g","n","e","d">>,
             kw_auto_increment) >>,
      << Col(<<"f","l","a","g">>, kw_tinyint1, <<>>),
         Col(<<"p","r","i","c","e">>, <<"d","e","c","i","m","a","l","(","1","0",",","2",")">>, <<>>),
         Col(<<"d","a","t","a">>, kw_json, <<>>) >>,
      << Col(<<"q",Backtick,"y">>, <<"m","e","d","i","u","m","i","n","t">>, <<>>),
         Col(<<"t","s">>, <<"D","A","T","E","T","I","M","E">>,
             <<"D","E","F","A","U","L","T","_","G","E","N","E","R","A","T","E","D">>),
         Col(<<"i","d">>, <<"i","n","t"," ","u","n","s","i","g","n","e","d">>,
             kw_auto_increment) >> }

\* a table that already holds k rows
ExistingRows(columns, k) == [r \in 1..k |-> [c \in 1..Len(columns) |-> IntVal(r)]]

\* the row the server stores for one inserted tuple: the given values in the
\* named columns, the next key in an auto_increment column, NULL elsewhere
StoredRow(columns, names, tuple, key) ==
    [c \in 1..Len(columns) |->
        IF \E j \in 1..Len(names) : names[j] = columns[c].Field
        THEN tuple[CHOOSE j \in 1..Len(names) : names[j] = columns[c].Field]
        ELSE IF Contains(kw_auto_increment, columns[c].Extra) THEN IntVal(key)
        ELSE NoneVal]

StoredRows(columns, names, tuples, held) ==
    [k \in 1..Len(tuples) |-> StoredRow(columns, names, tuples[k], held + k)]

\* --------------------------------------------------------------------- csv
\* str(value) as csv.writer writes a field; None is the empty field
FieldText(v) ==
    CASE v.py = "int" -> IntToStr(v.i)
      [] v.py = "float" -> IntToStr(v.f) \o <<".","0">>
      [] v.py = "str" -> v.s
      [] OTHER -> <<>>

RECURSIVE DoubleQuotes(_)
DoubleQuotes(s) ==
    IF s = <<>> THEN <<>>
    ELSE IF Head(s) = "\"" THEN <<"\"","\"">> \o DoubleQuotes(Tail(s))
    ELSE <<Head(s)>> \o DoubleQuotes(Tail(s))

\* QUOTE_MINIMAL of the excel dialect
CsvField(s) ==
    IF \E i \in 1..Len(s) : s[i] \in {",", "\"", "\r", "\n"}
    THEN <<"\"">> \o DoubleQuotes(s) \o <<"\"">>
    ELSE s

CsvRecord(fields) ==
    Join(<<",">>, [i \in 1..Len(fields) |-> CsvField(fields[i])]) \o <<"\r","\n">>

RECURSIVE CsvRecords(_)
CsvRecords(rs) == IF rs = <<>> THEN <<>> ELSE CsvRecord(rs[1]) \o CsvRecords(Tail(rs))

\* write_csv(file_path, columns, rows): the bytes of the file
write_csv(cols, rs) ==
    CsvRecord(cols)
        \o CsvRecords([r \in 1..Len(rs) |-> [c \in 1..Len(rs[r]) |-> FieldText(rs[r][c])]])

\* --------------------------------------------------------------- variables
VARIABLES
    g_type, g_name, g_index, g_value, g_pc,  \* one call of generate_mock_value
    environ,         \* os.environ
    schema,          \* the columns of the target table
    table_rows,      \* the committed rows of the target table
    txn_rows,        \* rows inserted in the connection's open transaction
    table_at_start,  \* history: the committed rows when the run began
    conn,            \* "none", "open", "closed"
    pc,              \* the statement of main() that runs next
    error,           \* the exception that is propagating, "" for none
    ops,             \* history: every call on a collaborator, in order
    table_name, existing_rows, rows_to_insert, column_names, mock_rows,
    columns, rows,   \* what fetch_table_data returned
    csv_file,        \* the output file
    s3_object        \* the uploaded object

gvars == <<g_type, g_name, g_index, g_value, g_pc>>
dbvars == <<schema, table_rows, txn_rows, table_at_start>>
seedvars == <<existing_rows, rows_to_insert, column_names, mock_rows>>
outvars == <<columns, rows, csv_file, s3_object>>
mvars == <<environ, dbvars, conn, pc, error, ops, table_name, seedvars, outvars>>
vars == <<gvars, mvars>>

Op(name, ok, arg) == [op |-> name, ok |-> ok, arg |-> arg]

NoFile == [exists |-> FALSE, path |-> <<>>, data |-> <<>>]
NoObject == [exists |-> FALSE, bucket |-> <<>>, key |-> <<>>, data |-> <<>>]

\* the variables of main() before it starts
MainIdle ==
    /\ conn = "none" /\ error = "" /\ ops = <<>>
    /\ table_name = <<>> /\ existing_rows = -1 /\ rows_to_insert = 0
    /\ column_names = <<>> /\ mock_rows = <<>>
    /\ columns = <<>> /\ rows = <<>>
    /\ csv_file = NoFile /\ s3_object = NoObject

GenIdle ==
    /\ g_type = <<>> /\ g_name = <<>> /\ g_index = 0 /\ g_value = NoneVal
    /\ g_pc = "idle"

\* ------------------------------------------------------ settings of a run
Unset == <<>>
UserOptions == { Unset, << <<"u","s","r">> >> }
PasswordOptions == { Unset, << <<"p","w">> >> }
DatabaseOptions == { Unset, << <<"d","b">> >> }
PortOptions == { Unset, << <<"3","3","0","7">> >>, << <<"x">> >> }
TableOptions == { Unset, << <<>> >>, << <<"t">> >>, << <<"a",Backtick,"b">> >> }
SeedOptions == { Unset, << <<"Y","e","s">> >>, << <<"1">> >>, << <<"n","o">> >> }
MockRowsOptions ==
    { Unset, << <<"a","b","c">> >>, << <<" ","1"," ">> >> }
        \cup { << IntToStr(n) >> : n \in (-1)..MaxMockRows }
OutputOptions == { Unset, << <<"o","u","t","/","x",".","c","s","v">> >> }

Init ==
    /\ GenIdle
    /\ MainIdle
    /\ pc = "connect"
    /\ \E user \in UserOptions, password \in PasswordOptions, database \in DatabaseOptions,
          port \in PortOptions, table \in TableOptions, seed \in SeedOptions,
          mock \in MockRowsOptions, output \in OutputOptions :
        environ = MkEnv(<< <<"MYSQL_USER", user>>, <<"MYSQL_PASSWORD", password>>,
                           <<"MYSQL_DATABASE", database>>, <<"MYSQL_PORT", port>>,
                           <<"MYSQL_TABLE", table>>, <<"SEED_MOCK_DATA", seed>>,
                           <<"MOCK_ROWS", mock>>, <<"OUTPUT_CSV", output>> >>)
    /\ schema \in Schemas
    /\ \E k \in 0..MaxExisting : table_rows = ExistingRows(schema, k)
    /\ txn_rows = <<>>
    /\ table_at_start = table_rows

\* ---------------------------------------------------------------- main()
\* mysql.connector.connect(**get_db_config()), its except clause included
Connect ==
    /\ pc = "connect"
    /\ LET config == get_db_config(environ)
       IN IF config.py = "raise"
          THEN /\ error' = config.exc
               /\ pc' = "done"
               /\ UNCHANGED <<ops, conn>>
          ELSE \E ok \in BOOLEAN :
               /\ ops' = Append(ops, Op("connect", ok, config.database))
               /\ conn' = IF ok THEN "open" ELSE "none"
               /\ error' = IF ok THEN "" ELSE "RuntimeError: could not connect"
               /\ pc' = IF ok THEN "get_table_name" ELSE "done"
    /\ UNCHANGED <<gvars, environ, dbvars, table_name, seedvars, outvars>>

\* table_name = get_table_name()
GetTableName ==
    /\ pc = "get_table_name"
    /\ LET name == get_table_name(environ)
       IN /\ table_name' = IF name.py = "raise" THEN table_name ELSE name.s
          /\ error' = IF name.py = "raise" THEN name.exc ELSE ""
          /\ pc' = AfterStep("get_table_name", name.py = "raise")
    /\ UNCHANGED <<gvars, environ, dbvars, conn, ops, seedvars, outvars>>

\* should_seed_mock_data() is false: the seed step is left out
SkipSeed ==
    /\ pc = "seed"
    /\ ~should_seed_mock_data(environ)
    /\ pc' = AfterStep("seed", FALSE)
    /\ UNCHANGED <<gvars, environ, dbvars, conn, error, ops, table_name, seedvars, outvars>>

\* seed_mock_data from executemany on. insert_ok: executemany returned; kept:
\* the rows the server holds in the transaction when it failed; commit_ok:
\* commit returned; applied: the server made the transaction durable.
SeedInsert(names, tuples, insert_ok, kept, commit_ok, applied) ==
    LET held == Len(table_rows)
        pending == StoredRows(schema, names, SubSeq(tuples, 1, kept), held)
        commits == ReachesCommit(insert_ok)
        query == insert_query(table_name, names)
    IN /\ column_names' = names
       /\ mock_rows' = tuples
       /\ ops' = ops
            \o << Op("count", TRUE, count_query(table_name)),
                  Op("describe", TRUE, describe_query(table_name)),
                  Op("executemany", insert_ok, query) >>
            \o (IF commits THEN << Op("commit", commit_ok, <<>>) >> ELSE <<>>)
       /\ table_rows' = IF commits /\ applied THEN table_rows \o pending ELSE table_rows
       /\ txn_rows' = IF commits /\ applied THEN <<>> ELSE pending
       /\ error' = IF insert_ok /\ (~commits \/ commit_ok) THEN ""
                   ELSE "mysql.connector.Error"
       /\ pc' = AfterStep("seed", ~(insert_ok /\ (~commits \/ commit_ok)))

\* seed_mock_data(connection, table_name, rows_to_insert), called when
\* should_seed_mock_data() is true
SeedMockData ==
    /\ pc = "seed"
    /\ should_seed_mock_data(environ)
    /\ rows_to_insert' = rows_to_insert_of(environ)
    /\ LET n == rows_to_insert_of(environ)
           count == Len(table_rows) + Len(txn_rows)
           insertable == insertable_columns(schema)
           names == [c \in 1..Len(insertable) |-> insertable[c].Field]
           tuples == mock_rows_of(insertable, n)
       IN \/ \* SELECT COUNT(*) fails
             /\ ops' = Append(ops, Op("count", FALSE, count_query(table_name)))
             /\ error' = "mysql.connector.Error"
             /\ pc' = AfterStep("seed", TRUE)
             /\ UNCHANGED <<table_rows, txn_rows, existing_rows, column_names, mock_rows>>
          \/ \* the table holds rows
             /\ SkipsSeeding(count)
             /\ existing_rows' = count
             /\ ops' = Append(ops, Op("count", TRUE, count_query(table_name)))
             /\ pc' = AfterStep("seed", FALSE)
             /\ UNCHANGED <<table_rows, txn_rows, error, column_names, mock_rows>>
          \/ \* DESCRIBE fails
             /\ ~SkipsSeeding(count)
             /\ existing_rows' = count
             /\ ops' = ops \o << Op("count", TRUE, count_query(table_name)),
                                 Op("describe", FALSE, describe_query(table_name)) >>
             /\ error' = "mysql.connector.Error"
             /\ pc' = AfterStep("seed", TRUE)
             /\ UNCHANGED <<table_rows, txn_rows, column_names, mock_rows>>
          \/ \* no column can take a mock value
             /\ ~SkipsSeeding(count)
             /\ insertable = <<>>
             /\ existing_rows' = count
             /\ ops' = ops \o << Op("count", TRUE, count_query(table_name)),
                                 Op("describe", TRUE, describe_query(table_name)) >>
             /\ pc' = AfterStep("seed", FALSE)
             /\ UNCHANGED <<table_rows, txn_rows, error, column_names, mock_rows>>
          \/ \* the rows are built and inserted
             /\ ~SkipsSeeding(count)
             /\ insertable # <<>>
             /\ existing_rows' = count
             /\ IF RowsRaise(tuples)
                THEN /\ ops' = ops \o << Op("count", TRUE, count_query(table_name)),
                                         Op("describe", TRUE, describe_query(table_name)) >>
                     /\ error' = "OverflowError"
                     /\ pc' = AfterStep("seed", TRUE)
                     /\ column_names' = names
                     /\ UNCHANGED <<table_rows, txn_rows, mock_rows>>
                ELSE \E insert_ok \in BOOLEAN, commit_ok \in BOOLEAN, applied \in BOOLEAN :
                     \E kept \in 0..Len(tuples) :
                        \* an empty batch sends nothing and cannot fail; a batch
                        \* that returned holds every row; commit makes durable
                        \* what it reports durable
                        /\ tuples = <<>> => insert_ok
                        /\ insert_ok => kept = Len(tuples)
                        /\ ~insert_ok => kept < Len(tuples)
                        /\ commit_ok => applied
                        /\ SeedInsert(names, tuples, insert_ok, kept, commit_ok, applied)
    /\ UNCHANGED <<gvars, environ, schema, table_at_start, conn, table_name, outvars>>

\* columns, rows = fetch_table_data(connection, table_name)
FetchTableData ==
    /\ pc = "fetch"
    /\ \E ok \in BOOLEAN :
        /\ ops' = Append(ops, Op("select", ok, select_query(table_name)))
        /\ columns' = IF ok THEN [c \in 1..Len(schema) |-> schema[c].Field] ELSE columns
        /\ rows' = IF ok THEN table_rows \o txn_rows ELSE rows
        /\ error' = IF ok THEN "" ELSE "mysql.connector.Error"
        /\ pc' = AfterStep("fetch", ~ok)
    /\ UNCHANGED <<gvars, environ, dbvars, conn, table_name, seedvars, csv_file, s3_object>>

\* write_csv(output_file, columns, rows)
WriteCsv ==
    /\ pc = "write_csv"
    /\ \E ok \in BOOLEAN :
        /\ ops' = Append(ops, Op("write_csv", ok, output_file_of(environ)))
        /\ csv_file' = IF ok THEN [exists |-> TRUE, path |-> output_file_of(environ),
                                   data |-> write_csv(columns, rows)]
                       ELSE csv_file
        /\ error' = IF ok THEN "" ELSE "OSError"
        /\ pc' = AfterStep("write_csv", ~ok)
    /\ UNCHANGED <<gvars, environ, dbvars, conn, table_name, seedvars, columns, rows, s3_object>>

\* upload_to_s3(output_file, s3_bucket, s3_key)
UploadToS3 ==
    /\ pc = "upload"
    /\ \E ok \in BOOLEAN :
        /\ ops' = Append(ops, Op("upload", ok, s3_key_of(environ)))
        /\ s3_object' = IF ok THEN [exists |-> TRUE, bucket |-> s3_bucket_of(environ),
                                    key |-> s3_key_of(environ), data |-> csv_file.data]
                        ELSE s3_object
        /\ error' = IF ok THEN "" ELSE "S3UploadFailedError"
        /\ pc' = AfterStep("upload", ~ok)
    /\ UNCHANGED <<gvars, environ, dbvars, conn, table_name, seedvars, columns, rows, csv_file>>

\* finally: connection.close(); the server rolls back what was not committed
Finally ==
    /\ pc = "finally"
    /\ conn' = "closed"
    /\ txn_rows' = <<>>
    /\ ops' = Append(ops, Op("close", TRUE, <<>>))
    /\ pc' = "done"
    /\ UNCHANGED <<gvars, environ, schema, table_rows, table_at_start, error, table_name,
                   seedvars, outvars>>

Next ==
    \/ Connect
    \/ GetTableName
    \/ SkipSeed
    \/ SeedMockData
    \/ FetchTableData
    \/ WriteCsv
    \/ UploadToS3
    \/ Finally

Spec == Init /\ [][Next]_vars

\* ------------------------------------------ specification of the generator
InitGen ==
    /\ g_type \in RawTypes
    /\ g_name \in ColumnNames
    /\ g_index \in RowOrdinals
    /\ g_value = NoneVal
    /\ g_pc = "call"
    /\ MainIdle
    /\ pc = "idle"
    /\ environ = MkEnv(<<>>)
    /\ schema = <<>> /\ table_rows = <<>> /\ txn_rows = <<>> /\ table_at_start = <<>>

\* one call of generate_mock_value
Generate ==
    /\ g_pc = "call"
    /\ g_value' = generate_mock_value(g_type, g_name, g_index)
    /\ g_pc' = "returned"
    /\ UNCHANGED <<g_type, g_name, g_index, mvars>>

\* the next iteration of the row loop: the same column, the next row_index
NextRow ==
    /\ g_pc = "returned"
    /\ g_value.py # "raise"
    /\ g_index < MaxOrdinal
    /\ g_index' = g_index + 1
    /\ g_value' = NoneVal
    /\ g_pc' = "call"
    /\ UNCHANGED <<g_type, g_name, mvars>>

NextGen == Generate \/ NextRow

SpecGen == InitGen /\ [][NextGen]_vars
\* ------------------------------------------------------------ the history
OpIdx(name) == { i \in 1..Len(ops) : ops[i].op = name }
Issued(name) == OpIdx(name) # {}
IssuedOk(name) == \E i \in OpIdx(name) : ops[i].ok
Failed(name) == \E i \in OpIdx(name) : ~ops[i].ok
AutoGenerated(c) == Contains(kw_auto_increment, schema[c].Extra)
AllAutoGenerated == \A c \in 1..Len(schema) : AutoGenerated(c)

\* the step of main() a call belongs to
StepOf(name) ==
    CASE name = "connect" -> 0
      [] name \in {"count", "describe", "executemany", "commit"} -> 1
      [] name = "select" -> 2
      [] name = "write_csv" -> 3
      [] name = "upload" -> 4
      [] name = "close" -> 5

\* C1: when seed_mock_data counts at least one row in the table, whatever
\* rows_to_insert is, it issues no INSERT and no commit, and the table's rows
\* stay the rows the run found.
C1_NonEmptyTableUntouched ==
    existing_rows > 0 =>
        /\ ~Issued("executemany")
        /\ ~Issued("commit")
        /\ table_rows = table_at_start
        /\ txn_rows = <<>>

C1_Witness ==
    /\ existing_rows > 0
    /\ rows_to_insert = 3
    /\ pc = "fetch"
    /\ IssuedOk("count")

\* C2: seeding is all-or-nothing. A batch insert that fails ends the run with
\* an error, no commit is issued, no later step runs, and the committed table
\* holds either the rows it began with or those and every mock row.
C2_SeedAllOrNothing ==
    /\ \/ table_rows = table_at_start
       \/ /\ Len(table_rows) = Len(table_at_start) + Len(mock_rows)
          /\ SubSeq(table_rows, 1, Len(table_at_start)) = table_at_start
          /\ IssuedOk("executemany")
    /\ Failed("executemany") =>
        /\ ~Issued("commit")
        /\ table_rows = table_at_start
        /\ error = "mysql.connector.Error"
        /\ pc \in {"finally", "done"}
        /\ ~Issued("select") /\ ~Issued("write_csv") /\ ~Issued("upload")
        /\ pc = "done" => txn_rows = <<>>

C2_Witness ==
    /\ Failed("executemany")
    /\ Len(mock_rows) = 3
    /\ Len(txn_rows) = 2
    /\ pc = "finally"

\* C3: once connect() has returned a connection, it is closed exactly once on
\* every way out of main(), the close is the last call of the run, and no
\* call on the database follows it.
C3_ConnectionReleasedOnce ==
    /\ Cardinality(OpIdx("close")) <= 1
    /\ \A i \in OpIdx("close") : i = Len(ops)
    /\ conn = "open" => ~Issued("close")
    /\ conn = "closed" => Issued("close") /\ pc = "done"
    /\ (pc = "done" /\ IssuedOk("connect")) =>
          /\ Cardinality(OpIdx("close")) = 1
          /\ conn = "closed"

C3_Witness ==
    /\ pc = "done"
    /\ error = "S3UploadFailedError"
    /\ conn = "closed"
    /\ ops[Len(ops)].op = "close"

\* C4: a missing required setting (user, password, database or the table
\* name) is detected before any connection is attempted.
C4_ConfigErrorBeforeConnect ==
    error \in { "RuntimeError: missing required environment variable",
                "RuntimeError: MYSQL_TABLE must be set" }
        => ~Issued("connect")

\* C5: on an empty table with a non-auto-generated column, seed_mock_data with
\* rows_to_insert = n >= 0 issues one batch of exactly n rows and then one
\* commit; a row holds one value per non-auto-generated column, in schema
\* order, and row k holds generate_mock_value(type, name, k) for each, which
\* is mock_<col>_<k+1> for a text column.
C5_SeedInsertsGeneratedRows ==
    Issued("executemany") =>
        LET plain == SelectSeq([c \in 1..Len(schema) |-> c], LAMBDA c : ~AutoGenerated(c))
            i == CHOOSE j \in OpIdx("executemany") : TRUE
        IN /\ Cardinality(OpIdx("executemany")) = 1
           /\ existing_rows = 0
           /\ table_at_start = <<>>
           /\ plain # <<>>
           /\ rows_to_insert >= 0 => Len(mock_rows) = rows_to_insert
           /\ column_names = [c \in 1..Len(plain) |-> schema[plain[c]].Field]
           /\ \A k \in 1..Len(mock_rows) :
                /\ Len(mock_rows[k]) = Len(plain)
                /\ \A c \in 1..Len(plain) :
                    /\ mock_rows[k][c] =
                         generate_mock_value(schema[plain[c]].Type, schema[plain[c]].Field, k - 1)
                    /\ Contains(kw_char, schema[plain[c]].Type) =>
                         mock_rows[k][c] =
                             StrVal(<<"m","o","c","k","_">> \o schema[plain[c]].Field
                                    \o <<"_">> \o IntToStr(k))
           /\ Cardinality(OpIdx("commit")) <= 1
           /\ ops[i].ok => (Len(ops) > i /\ ops[i + 1].op = "commit")
           /\ IssuedOk("commit") =>
                /\ Len(table_rows) = Len(mock_rows)
                /\ \A k \in 1..Len(mock_rows) : \A c \in 1..Len(plain) :
                       table_rows[k][plain[c]] = mock_rows[k][c]

C5_Witness ==
    /\ pc = "fetch"
    /\ IssuedOk("commit")
    /\ rows_to_insert = 3
    /\ Len(schema) = 3
    /\ column_names = << <<"n","a","m","e">>, <<"c","r","e","a","t","e","d">> >>
    /\ Len(table_rows) = 3
    /\ table_rows[3][2] = StrVal(<<"m","o","c","k","_","n","a","m","e","_","3">>)

\* C6: on an empty table whose columns are all auto-generated, seeding is
\* skipped without an error: no INSERT, no commit, and the run goes on to
\* extraction, the CSV file and the upload.
C6_NoInsertableColumnsSkips ==
    (AllAutoGenerated /\ existing_rows = 0) =>
        /\ ~Issued("executemany")
        /\ ~Issued("commit")
        /\ table_rows = table_at_start
        /\ (IssuedOk("describe") /\ Len(ops) \in OpIdx("describe")) =>
              (pc = "fetch" /\ error = "")

C6_Witness ==
    /\ AllAutoGenerated
    /\ existing_rows = 0
    /\ rows_to_insert = 3
    /\ pc = "done"
    /\ error = ""
    /\ IssuedOk("select") /\ csv_file.exists /\ s3_object.exists

\* C10: the calls of one run come in the order seed (only with the toggle on),
\* extract, write CSV, upload; extract, write and upload are each issued at
\* most once; a step starts only after the steps before it succeeded, and
\* after a failed call nothing but the close follows.
C10_StepsInOrder ==
    /\ \A i, j \in 1..Len(ops) : i < j => StepOf(ops[i].op) <= StepOf(ops[j].op)
    /\ \A name \in {"connect", "count", "describe", "executemany", "commit",
                    "select", "write_csv", "upload"} : Cardinality(OpIdx(name)) <= 1
    /\ \A i, j \in 1..Len(ops) : (i < j /\ ~ops[i].ok) => ops[j].op = "close"
    /\ Issued("count") => should_seed_mock_data(environ)
    /\ (Issued("select") /\ should_seed_mock_data(environ)) => IssuedOk("count")
    /\ (Issued("select") /\ Issued("executemany")) => IssuedOk("commit")
    /\ Issued("write_csv") => IssuedOk("select")
    /\ Issued("upload") => IssuedOk("write_csv")
    /\ (pc = "done" /\ error = "" ) => IssuedOk("upload")

C10_Witness ==
    /\ pc = "done"
    /\ error = ""
    /\ IssuedOk("commit")
    /\ IssuedOk("upload")
    /\ Len(rows) = 2

\* ---------------------------------------------- claims about the generator
\* kw in s, whatever the case of the letters of s (kw in lower case)
ContainsAnyCase(kw, s) ==
    \E i \in 0..(Len(s) - Len(kw)) :
        \A j \in 1..Len(kw) :
            \/ s[i + j] = kw[j]
            \/ \E a \in 1..26 : LowerAlpha[a] = kw[j] /\ UpperAlpha[a] = s[i + j]

\* the first rule of the claimed order that matches the lower-cased type
FirstRuleOf(t) ==
    IF IsUnsignedInt(t) THEN 1
    ELSE IF IsInteger(t) THEN 2
    ELSE IF IsDecimal(t) THEN 3
    ELSE IF IsBoolean(t) THEN 4
    ELSE IF IsDateOnly(t) THEN 5
    ELSE IF IsDateTime(t) THEN 6
    ELSE IF IsText(t) THEN 7
    ELSE IF IsJson(t) THEN 8
    ELSE 9

FirstRule(raw) == FirstRuleOf(Lower(raw))

\* C7: classification is first-match-wins in the order unsigned integer,
\* integer, decimal, boolean, date-only, date-time, text, json, unknown,
\* whatever the letter case; a raw type holding both "int" and "unsigned" in
\* any case is an unsigned integer whatever else it holds.
C7_FirstMatchWins ==
    g_pc = "returned" =>
        LET rule == FirstRule(g_type)
        IN /\ g_value =
                CASE rule \in {1, 2} -> IntVal(g_index + 1)
                  [] rule = 3 -> FloatVal(g_index + 1)
                  [] rule = 4 -> IntVal(g_index % 2)
                  [] rule = 5 -> MockDate(g_index)
                  [] rule = 6 -> MockDateTime(g_index)
                  [] rule = 8 -> MockJson(g_name, g_index + 1)
                  [] OTHER -> MockText(g_name, g_index + 1)
           /\ (ContainsAnyCase(kw_int, g_type) /\ ContainsAnyCase(kw_unsigned, g_type))
                 => (rule = 1 /\ g_value = IntVal(g_index + 1))

C7_Witness ==
    /\ g_pc = "returned"
    /\ g_type = kw_bool \o <<"I","N","T">> \o <<"U","n","S","i","g","n","e","d">>
    /\ g_index = 2
    /\ g_value = IntVal(3)

\* C8 as claimed: for every raw type, column name and row ordinal >= 0 the
\* call returns a value and never fails, and an unrecognized raw type yields
\* the non-empty string mock_<columnName>_<rowOrdinal+1>, the Text result.
C8_TotalForEveryOrdinal ==
    g_pc = "returned" =>
        /\ g_value.py \in {"int", "float", "str"}
        /\ FirstRule(g_type) = 9 =>
              /\ g_value = StrVal(<<"m","o","c","k","_">> \o g_name \o <<"_">>
                                  \o IntToStr(g_index + 1))
              /\ g_value = generate_mock_value(kw_text, g_name, g_index)

\* C8 as amended: the call returns a value for every raw type and column name
\* while the row ordinal is at most LastDateOrdinal (2024-01-01 plus that many
\* days is 9999-12-31); an unrecognized raw type yields the non-empty string
\* mock_<columnName>_<rowOrdinal+1>, the Text result. Past the calendar the
\* date kinds, and only they, raise OverflowError.
C8_TotalWithinCalendar ==
    g_pc = "returned" =>
        /\ g_index <= LastDateOrdinal => g_value.py \in {"int", "float", "str"}
        /\ g_value.py \in {"int", "float", "str"} \/ g_value = Raised("OverflowError")
        /\ g_value.py = "raise" <=>
              \/ FirstRule(g_type) = 5 /\ g_index > LastDateOrdinal
              \/ FirstRule(g_type) = 6 /\ g_index > LastDateTimeOrdinal
        /\ FirstRule(g_type) = 9 =>
              /\ g_value = StrVal(<<"m","o","c","k","_">> \o g_name \o <<"_">>
                                  \o IntToStr(g_index + 1))
              /\ Len(g_value.s) > 0
              /\ g_value = generate_mock_value(kw_text, g_name, g_index)

C8_Witness ==
    /\ g_pc = "returned"
    /\ g_type = <<>>
    /\ g_name = <<"c">>
    /\ g_index = LastDateOrdinal
    /\ g_value = StrVal(<<"m","o","c","k","_","c","_","2","9","1","3","1","7","4">>)

\* C9: for every row ordinal k >= 0 an integer-kind column, signed or
\* unsigned, gets k + 1 and a boolean-kind column gets k mod 2; the value is a
\* function of (column type, column name, row ordinal) alone.
C9_IntegerAndBooleanValues ==
    g_pc = "returned" =>
        /\ FirstRule(g_type) \in {1, 2} => g_value = IntVal(g_index + 1)
        /\ FirstRule(g_type) = 4 =>
              g_value = (IF g_index % 2 = 0 THEN IntVal(0) ELSE IntVal(1))

C9_Witness ==
    /\ g_pc = "returned"
    /\ g_type = <<"T","I","N","Y","I","N","T","(","1",")">>
    /\ g_index = 3
    /\ g_value = IntVal(1)
====
